---- MODULE Spec2Model ----
(***************************************************************************)
(* Model of jot (src/jot/jot.py): the Nest adjacency table, the tree       *)
(* expansion (family_tree / find_children) and the nested display order    *)
(* (nest_notes) computed by print_nested.                                   *)
(***************************************************************************)
EXTENDS Integers, Sequences, FiniteSets, TLC

\* ---------------------------------------------------------------- bounds
\* edges of the Nest table are drawn over the identifiers 1..MaxId
MaxId == 3
\* wanted identifiers are drawn from 1..MaxNote (notes MaxId+1..MaxNote take
\* part in no edge)
MaxNote == 5
\* largest number of rows of the Nest table
MaxEdges == 3
\* depth at which the interpreter stops a recursion (RecursionError); any
\* acyclic expansion over 1..MaxId is shallower
RecursionLimit == 6
\* longest description drawn for the line formatter
MaxDesc == 3
\* deepest generation handed to the line formatter
MaxGen == 3
\* widest note field (snippet_width) drawn
MaxWidth == 3
\* longest description, longest search term and widest note field drawn
\* for the search highlight
MaxText == 4
MaxTerm == 2
MaxSnip == 4
MaxFlatEdges == 1
MaxTokens == 2
MaxRows == 2
MaxNestRows == 2
MaxEditRows == 1
\* longest text and largest width handed to smart_wrap
MaxWrapText == 4
MaxWrapWidth == 3

VARIABLES
    Nest,            \* rows (parent, child) of the Nest table, in store order
    my_ids,          \* the wanted identifiers handed to print_nested
    pc,              \* "call" | "done" | "RecursionError"
    tree,            \* family_tree()[0]
    parent_children, \* family_tree()[1]
    ids,             \* nest_notes()[0]
    gens,            \* nest_notes()[1]
    first_run,       \* <<ids, gens>> returned by an earlier run, or <<>>
    snippet_width,   \* self.snippet_width
    colorize,        \* self.colorize
    row,             \* a Notes row joined with its Status row
    generation,      \* the generation handed to summary_formatted
    result,          \* the line summary_formatted returned
    find,            \* the search term (args.find), <<>> when there is none
    excerpts,        \* the excerpts print_formatted printed, before padding
    wrap_text,       \* the text handed to smart_wrap
    wrap_width,      \* the width handed to smart_wrap
    wrap,            \* the list wrap of smart_wrap, one element per line
    Notes,           \* rows of the Notes table, in store order
    mode,            \* args.order: "flat" | "nested"
    status_show,     \* the statuses print_notes selects
    printed,         \* the (identifier, generation) lines print_notes printed
    identifier,      \* args.identifier, the identifiers given on the command line
    batch,           \* identifier_to_id(args.identifier), the batch of --less
    pos,             \* how many identifiers of the batch print_note has handled
    log,             \* what print_note put out, one entry per call
    last             \* the command being run and the tables it found, <<>> otherwise

nestVars == <<Nest, my_ids, pc, tree, parent_children, ids, gens>>

lineVars == <<snippet_width, colorize, row, generation, result, find, excerpts,
              wrap_text, wrap_width, wrap>>

storeVars == <<Notes, mode, status_show, printed, identifier, batch, pos, log, last>>

vars == <<nestVars, first_run, lineVars, storeVars>>

\* ------------------------------------------------------------ list helpers
Range(s) == {s[k] : k \in DOMAIN s}

Min(S) == CHOOSE x \in S : \A y \in S : x <= y

\* list(S); list.sort()
RECURSIVE sort(_)
sort(S) == IF S = {} THEN <<>> ELSE <<Min(S)>> \o sort(S \ {Min(S)})

\* a descending list(S)
RECURSIVE sort_desc(_)
sort_desc(S) ==
    IF S = {} THEN <<>>
    ELSE LET m == CHOOSE x \in S : \A y \in S : x >= y
         IN  <<m>> \o sort_desc(S \ {m})

\* s[::2]
Evens(s) == [k \in 1..((Len(s) + 1) \div 2) |-> s[2 * k - 1]]
\* s[1::2]
Odds(s) == [k \in 1..(Len(s) \div 2) |-> s[2 * k]]

\* [x] * n
Repeat(x, n) == [k \in 1..n |-> x]

\* ------------------------------------------------------------- Tree Builder
\* value standing for a call that did not return (RecursionError raised)
Raised == <<>>

\* SELECT child FROM Nest WHERE parent = ?   (rows in store order)
RECURSIVE select_children(_, _)
select_children(rows, parent) ==
    IF rows = <<>> THEN <<>>
    ELSE (IF Head(rows)[1] = parent THEN <<Head(rows)[2]>> ELSE <<>>)
         \o select_children(Tail(rows), parent)

\* nest = [parent, gen, [find_children(child, gen+1) for child in children]]
RECURSIVE find_children(_, _)
find_children(parent, gen) ==
    IF gen > RecursionLimit THEN Raised
    ELSE LET children == select_children(Nest, parent)
             kids == [k \in DOMAIN children |-> find_children(children[k], gen + 1)]
         IN  IF \E k \in DOMAIN kids : kids[k] = Raised
             THEN Raised
             ELSE <<parent, gen, kids>>

\* flatten2list applied to a list of [parent, gen, [...]] nodes
RECURSIVE flatten2list(_)
flatten2list(object) ==
    IF object = <<>> THEN <<>>
    ELSE LET item == Head(object)
         IN  <<item[1], item[2]>> \o flatten2list(item[3]) \o flatten2list(Tail(object))

\* flatten2set of SELECT parent / SELECT child
parents == {Nest[k][1] : k \in DOMAIN Nest}
children == {Nest[k][2] : k \in DOMAIN Nest}
last_children == children \ parents
family_parent_children == children \ last_children
\* variant: the true roots are not put in ascending order
first_parents_desc == sort_desc(parents \ family_parent_children)
first_parents == sort(parents \ family_parent_children)

\* variant: the roots are expanded from generation 0
family_tree_gen0 == [k \in DOMAIN first_parents |-> find_children(first_parents[k], 0)]
\* tree = [find_children(p, 1) for p in first_parents]
family_tree == [k \in DOMAIN first_parents |-> find_children(first_parents[k], 1)]

\* the exception of a find_children call leaves family_tree and nest_notes
Raises(t) == \E k \in DOMAIN t : t[k] = Raised

\* ----------------------------------------------------- Display-Set Resolver
\* variant: the "if i in my_ids" condition is missing
filter_nested_all(id_gen, wanted) == id_gen
\* variant: an identifier already kept is not kept again
RECURSIVE filter_seen(_, _, _)
filter_seen(id_gen, wanted, seen) ==
    IF Len(id_gen) < 2 THEN <<>>
    ELSE LET keep == id_gen[1] \in Range(wanted) /\ id_gen[1] \notin seen
         IN  (IF keep THEN <<id_gen[1], id_gen[2]>> ELSE <<>>)
             \o filter_seen(SubSeq(id_gen, 3, Len(id_gen)), wanted, seen \cup {id_gen[1]})
filter_nested_dedup(id_gen, wanted) == filter_seen(id_gen, wanted, {})
\* [[i, g] for i, g in zip(id_gen[::2], id_gen[1::2]) if i in my_ids], flattened
RECURSIVE filter_nested(_, _)
filter_nested(id_gen, wanted) ==
    IF Len(id_gen) < 2 THEN <<>>
    ELSE (IF id_gen[1] \in Range(wanted) THEN <<id_gen[1], id_gen[2]>> ELSE <<>>)
         \o filter_nested(SubSeq(id_gen, 3, Len(id_gen)), wanted)

\* variant: parent_children - (set(ids) & set(my_ids))
circular_of_grouped(pch, placed, wanted) == sort(pch \ (Range(placed) \cap Range(wanted)))
\* circular = parent_children - set(ids) & set(my_ids)   ('-' binds before '&')
circular_of(pch, placed, wanted) == sort((pch \ Range(placed)) \cap Range(wanted))

\* variant: only identifiers that occur in no edge are free
free_of_unlinked(placed, wanted) ==
    sort(Range(wanted) \ (Range(placed) \cup parents \cup children))
\* variant: the free identifiers are not put in ascending order
free_of_desc(placed, wanted) == sort_desc(Range(wanted) \ Range(placed))
\* free = set(my_ids) - set(ids)
free_of(placed, wanted) == sort(Range(wanted) \ Range(placed))

\* print_nested -> nest_notes(my_ids): one call, which returns or raises
nest_notes ==
    /\ pc = "call"
    /\ IF Raises(family_tree)
       THEN /\ pc' = "RecursionError"
            /\ UNCHANGED <<tree, parent_children, ids, gens>>
       ELSE LET id_gen == filter_nested(flatten2list(family_tree), my_ids)
                ids1 == Evens(id_gen)
                gens1 == Odds(id_gen)
                circular == circular_of(family_parent_children, ids1, my_ids)
                ids2 == ids1 \o circular
                gens2 == gens1 \o Repeat(-1, Len(circular))
                free == free_of(ids2, my_ids)
            IN  /\ tree' = family_tree
                /\ parent_children' = family_parent_children
                /\ ids' = ids2 \o free
                /\ gens' = gens2 \o Repeat(0, Len(free))
                /\ pc' = "done"
    /\ UNCHANGED <<Nest, my_ids>>
    /\ UNCHANGED <<first_run, lineVars, storeVars>>

\* ------------------------------------------------------------ text helpers
\* a text is a sequence of characters, each a string of length one
NL == "\n"

\* None, where a text is expected
None == <<"None">>

\* fill * n
Fill(fill, n) == [k \in 1..n |-> fill]

\* s.ljust(width, fill)
ljust(s, width, fill) == IF Len(s) >= width THEN s ELSE s \o Fill(fill, width - Len(s))

\* s.rjust(width, fill)
rjust(s, width, fill) == IF Len(s) >= width THEN s ELSE Fill(fill, width - Len(s)) \o s

\* s.center(width, fill): the odd space goes left when width is odd
center(s, width, fill) ==
    IF Len(s) >= width THEN s
    ELSE LET pad == width - Len(s)
             left == (pad \div 2) + (IF pad % 2 = 1 /\ width % 2 = 1 THEN 1 ELSE 0)
         IN  Fill(fill, left) \o s \o Fill(fill, pad - left)

\* a slice index as the interpreter normalises it
SliceIndex(i, n) == IF i < 0 THEN (IF i + n < 0 THEN 0 ELSE i + n) ELSE (IF i > n THEN n ELSE i)

\* s[start:stop]
slice(s, start, stop) ==
    LET a == SliceIndex(start, Len(s))
        b == SliceIndex(stop, Len(s))
    IN  IF a >= b THEN <<>> ELSE SubSeq(s, a + 1, b)

\* '\n' in s
multiline_in(s) == \E k \in DOMAIN s : s[k] = NL

\* s.split('\n')[0]
RECURSIVE first_line(_)
first_line(s) ==
    IF s = <<>> \/ Head(s) = NL THEN <<>> ELSE <<Head(s)>> \o first_line(Tail(s))

Digits == <<"0", "1", "2", "3", "4", "5", "6", "7", "8", "9">>

\* str(n) for n >= 0
RECURSIVE str(_)
str(n) == IF n < 10 THEN <<Digits[n + 1]>> ELSE str(n \div 10) \o <<Digits[(n % 10) + 1]>>

\* ----------------------------------------------------------- Style Engine
\* palette of src/jot.py: border, note, to-do, done, dropped, partial, id,
\* default, full note
palette == <<248, 217, 46, 34, 136, 36, 147, 15, 180>>

\* '\x1b[' + str(style) + ';38;5;' + str(color) + 'm', kept as one element of
\* the line
style_parser(color, style) ==
    "\\x1b[" \o ToString(style) \o ";38;5;" \o ToString(color) \o "m"

\* colorize_summary(my_str, gen, status_id, trim_key)
colorize_summary(my_str, g, status_id, trim_key) ==
    IF colorize
    THEN LET abs_gen == IF g < 0 THEN -g ELSE g
             sty_0 == style_parser(palette[8], 0)
             sty_ind == style_parser(IF status_id = 0 THEN palette[1] ELSE palette[7], 3)
             sty_note == style_parser(palette[status_id + 1], 0)
             sty_end == style_parser(palette[1], IF trim_key = 0 THEN 0 ELSE 5)
             gen_stop == 22 + abs_gen
             mydate == <<sty_note>> \o slice(my_str, 1, 13)
             mystat == <<sty_note>> \o slice(my_str, 13, 16)
             myind == <<sty_ind>> \o slice(my_str, 16, 22)
             mygen == <<sty_ind>> \o slice(my_str, 22, gen_stop)
             mynote == <<sty_note>> \o slice(my_str, gen_stop, 22 + snippet_width)
             myend == <<sty_end>>
                      \o slice(my_str, 22 + snippet_width, 23 + snippet_width)
                      \o <<sty_0>>
         IN  <<sty_end>> \o slice(my_str, 0, 1)
             \o mydate \o mystat \o myind \o mygen \o mynote \o myend
    ELSE my_str

\* ---------------------------------------------------------- Line Formatter
idWidth == 5

\* the display glyph of the Status table: none for a plain note, one
\* character for a task
StatusGlyph(status_id) ==
    IF status_id = 1 THEN <<>>
    ELSE <<<<" ", "x", "0", "/">>[status_id - 1]>>

\* variant: generation 1 is padded like the deeper generations, to width 2
gen_symbol_wide(g) ==
    IF g = 0 THEN <<>>
    ELSE IF g = 1 THEN rjust(<<">">>, 2, "-") \o <<" ">>
    ELSE IF g > 1 THEN rjust(<<">">>, g, "-") \o <<" ">>
    ELSE <<"?", " ">>
\* gen_symbol(gen)[0]
gen_symbol(g) ==
    IF g = 0 THEN <<>>
    ELSE IF g = 1 THEN ljust(<<">">>, g, ">") \o <<" ">>
    ELSE IF g > 1 THEN rjust(<<">">>, g, "-") \o <<" ">>
    ELSE <<"?", " ">>

\* note_summary before it is cut: gen_str + row[3].split('\n')[0]
note_summary0(r, g) == gen_symbol(g) \o first_line(r.description)

tooLong(r, g) == Len(note_summary0(r, g)) > snippet_width

\* variant: a text as long as the field counts as too long
end_chr_at_width(r, g) ==
    IF Len(note_summary0(r, g)) >= snippet_width /\ multiline_in(r.description) THEN 3
    ELSE IF Len(note_summary0(r, g)) >= snippet_width THEN 1
    ELSE IF multiline_in(r.description) THEN 2
    ELSE 0
\* index into chr_key
end_chr(r, g) ==
    IF tooLong(r, g) /\ multiline_in(r.description) THEN 3
    ELSE IF tooLong(r, g) THEN 1
    ELSE IF multiline_in(r.description) THEN 2
    ELSE 0

chr_key == <<"|", "~", "v", "&">>

\* note_summary[:snippet_width].ljust(snippet_width) + chr_key[end_chr]
note_str(r, g) ==
    ljust(slice(note_summary0(r, g), 0, snippet_width), snippet_width, " ")
    \o <<chr_key[end_chr(r, g) + 1]>>

\* row[7][:idWidth].rjust(idWidth) if row[7] else str(row[0]).rjust(idWidth)
id_str(r) ==
    IF r.alias # <<>>
    THEN rjust(slice(r.alias, 0, idWidth), idWidth, " ")
    ELSE rjust(str(r.notes_id), idWidth, " ")

plain_summary(r, g) ==
    <<"|", " ">> \o center(r.due, 10, " ") \o <<" ">>
    \o center(StatusGlyph(r.status_id), 3, "|")
    \o id_str(r) \o <<" ">> \o note_str(r, g) \o <<" ">>

\* summary_formatted(row, gen), called by print_formatted
summary_formatted ==
    /\ pc = "summary"
    /\ result' = colorize_summary(plain_summary(row, generation), generation,
                                row.status_id, end_chr(row, generation))
    /\ pc' = "summary_done"
    /\ UNCHANGED <<Nest, my_ids, tree, parent_children, ids, gens>>
    /\ UNCHANGED <<first_run, snippet_width, colorize, row, generation, find, excerpts>>
    /\ UNCHANGED <<wrap_text, wrap_width, wrap>>
    /\ UNCHANGED storeVars

\* -------------------------------------------------------- Highlight Wrapper
LowerCase == <<"a", "b", "c", "d", "e", "f", "g", "h", "i", "j", "k", "l", "m",
               "n", "o", "p", "q", "r", "s", "t", "u", "v", "w", "x", "y", "z">>
UpperCase == <<"A", "B", "C", "D", "E", "F", "G", "H", "I", "J", "K", "L", "M",
               "N", "O", "P", "Q", "R", "S", "T", "U", "V", "W", "X", "Y", "Z">>

lower_chr(c) ==
    IF \E k \in DOMAIN UpperCase : UpperCase[k] = c
    THEN LowerCase[CHOOSE k \in DOMAIN UpperCase : UpperCase[k] = c]
    ELSE c
upper_chr(c) ==
    IF \E k \in DOMAIN LowerCase : LowerCase[k] = c
    THEN UpperCase[CHOOSE k \in DOMAIN LowerCase : LowerCase[k] = c]
    ELSE c

\* s.lower(), s.upper()
lower(s) == [k \in DOMAIN s |-> lower_chr(s[k])]
upper(s) == [k \in DOMAIN s |-> upper_chr(s[k])]

\* s starts with sep
StartsWith(s, sep) == Len(s) >= Len(sep) /\ SubSeq(s, 1, Len(sep)) = sep

\* s.split(sep) for a non-empty sep: the parts between the occurrences of
\* sep, found from the left without overlap
RECURSIVE split_from(_, _, _)
split_from(rest, sep, part) ==
    IF rest = <<>> THEN <<part>>
    ELSE IF StartsWith(rest, sep)
         THEN <<part>> \o split_from(SubSeq(rest, Len(sep) + 1, Len(rest)), sep, <<>>)
         ELSE split_from(Tail(rest), sep, Append(part, Head(rest)))
split(s, sep) == split_from(s, sep, <<>>)

\* s.find(term) >= 0
found_in(s, term) == \E k \in 0..Len(s) : StartsWith(SubSeq(s, k + 1, Len(s)), term)

\* [i for i in l if keep(i)]
RECURSIVE select_lines(_, _)
select_lines(l, term) ==
    IF l = <<>> THEN <<>>
    ELSE (IF found_in(Head(l), term) THEN <<Head(l)>> ELSE <<>>)
         \o select_lines(Tail(l), term)

\* math.ceil(n / 2), math.floor(n / 2)
ceil_half(n) == -((-n) \div 2)
floor_half(n) == n \div 2

\* the excerpt print_formatted makes of one line of snip
excerpt_of(line, term) ==
    LET wid == snippet_width - Len(term)
        widh1 == ceil_half(wid)
        widh2 == floor_half(wid)
        context == split(<<"~">> \o line \o <<"~">>, lower(term))
        w0 == Len(context[1])
        w1 == Len(context[2])
    IN  IF Len(line) > wid
        THEN IF w0 + w1 > wid
             THEN IF w0 > widh1 /\ w1 > widh2
                  THEN slice(context[1], -widh1, Len(context[1])) \o upper(term)
                       \o slice(context[2], 0, widh2)
                  ELSE IF w0 > widh1
                  THEN slice(context[1], -(wid - w1), Len(context[1])) \o upper(term)
                       \o context[2]
                  ELSE context[1] \o upper(term) \o slice(context[2], 0, wid - w0)
             ELSE line
        ELSE context[1] \o upper(term) \o context[2]

\* the "if find:" part of print_formatted
print_highlight ==
    /\ pc = "find"
    /\ IF find # <<>>
       THEN LET snip == select_lines(split(lower(row.description), <<NL>>), lower(find))
            IN  excerpts' = [k \in DOMAIN snip |-> excerpt_of(snip[k], find)]
       ELSE excerpts' = <<>>
    /\ pc' = "find_done"
    /\ UNCHANGED <<Nest, my_ids, tree, parent_children, ids, gens>>
    /\ UNCHANGED <<first_run, snippet_width, colorize, row, generation, result, find>>
    /\ UNCHANGED <<wrap_text, wrap_width, wrap>>
    /\ UNCHANGED storeVars

\* the formatter is not in use
\* ------------------------------------------------------------ word wrap
\* the characters of a line that str.lstrip() strips
Whitespace == {" ", "\t"}

\* len(line) - len(line.lstrip())
RECURSIVE indent_of(_)
indent_of(line) ==
    IF line # <<>> /\ Head(line) \in Whitespace THEN 1 + indent_of(Tail(line)) ELSE 0

\* sep.join(parts)
RECURSIVE join(_, _)
join(sep, parts) ==
    IF parts = <<>> THEN <<>>
    ELSE IF Len(parts) = 1 THEN parts[1]
    ELSE parts[1] \o sep \o join(sep, Tail(parts))

\* range(0, stop, step) for stop >= 0 and step # 0: empty when step < 0
range(stop, step) ==
    IF step > 0 THEN [k \in 1..((stop + step - 1) \div step) |-> (k - 1) * step]
    ELSE <<>>

\* the element smart_wrap appends to wrap for one line of the text
wrap_line(line0, width) ==
    LET indent == indent_of(line0)
        n == width - indent
        line == slice(line0, indent, Len(line0))
        starts == range(Len(line), n)
    IN  join(<<NL>>,
             [k \in DOMAIN starts |->
                 ljust(<<>>, IF starts[k] = 0 THEN indent ELSE indent + 2, " ")
                 \o slice(line, starts[k], starts[k] + n)])

\* range() raises ValueError when its step is zero
wrap_raises(text, width) ==
    \E k \in DOMAIN split(text, <<NL>>) : width - indent_of(split(text, <<NL>>)[k]) = 0

\* the list wrap at the end of the loop
wrap_list(text, width) ==
    LET text_list == split(text, <<NL>>)
    IN  [k \in DOMAIN text_list |-> wrap_line(text_list[k], width)]

\* smart_wrap(text, width)
smart_wrap(text, width) == join(<<NL>>, wrap_list(text, width))

\* a call of smart_wrap
call_smart_wrap ==
    /\ pc = "wrap"
    /\ IF wrap_raises(wrap_text, wrap_width)
       THEN /\ pc' = "ValueError"
            /\ wrap' = wrap
       ELSE /\ pc' = "wrapped"
            /\ wrap' = wrap_list(wrap_text, wrap_width)
    /\ UNCHANGED <<Nest, my_ids, tree, parent_children, ids, gens>>
    /\ UNCHANGED <<first_run, snippet_width, colorize, row, generation, result, find,
                   excerpts, wrap_text, wrap_width>>
    /\ UNCHANGED storeVars

IdleWrap ==
    /\ wrap_text = <<>>
    /\ wrap_width = 0
    /\ wrap = <<>>

IdleLine ==
    /\ IdleWrap
    /\ snippet_width = 0
    /\ colorize = FALSE
    /\ row = <<>>
    /\ generation = 0
    /\ result = <<>>
    /\ find = <<>>
    /\ excerpts = <<>>

IdleStore ==
    /\ Notes = <<>>
    /\ mode = "nested"
    /\ status_show = {}
    /\ printed = <<>>
    /\ identifier = <<>>
    /\ batch = <<>>
    /\ pos = 0
    /\ log = <<>>
    /\ last = <<>>

\* ------------------------------------------------------------ inputs
Edges == (1..MaxId) \X (1..MaxId)

\* duplicate-free row lists of at most MaxEdges rows
RECURSIVE RowLists(_)
RowLists(n) ==
    IF n = 0 THEN {<<>>}
    ELSE LET shorter == RowLists(n - 1)
         IN  shorter \cup {Append(s, e) : s \in {x \in shorter : Len(x) = n - 1}, e \in Edges}

\* the tables are listed with their rows grouped by ascending parent: every
\* query of the program reads the rows of one parent (select_children) or a
\* set of them, so only the relative order of the rows of one parent
\* reaches the program, and that order is left free
NestTables ==
    {s \in RowLists(MaxEdges) :
        \A i, j \in DOMAIN s : i < j => (s[i] # s[j] /\ s[i][1] <= s[j][1])}

InitNest ==
    /\ Nest \in NestTables
    /\ my_ids \in {sort(W) : W \in SUBSET (1..MaxNote)}
    /\ pc = "call"
    /\ tree = <<>>
    /\ parent_children = {}
    /\ ids = <<>>
    /\ gens = <<>>
    /\ first_run = <<>>
    /\ IdleLine
    /\ IdleStore

NextNest == nest_notes

SpecNest == InitNest /\ [][NextNest]_vars

\* ------------------------------------------------ inputs of the formatter
\* the texts over an alphabet, up to a length
Text(alphabet, n) == UNION {[1..k -> alphabet] : k \in 0..n}

\* the description of the marker example, "abc\ndef"
AbcDef == <<"a", "b", "c", NL, "d", "e", "f">>

LineDescriptions == Text({"a", NL}, MaxDesc) \cup {AbcDef}

\* identifiers of one, five and six digits
IdSamples == {7, 99999, 100000}

\* no alias, a short alias, an alias longer than idWidth
AliasSamples == {<<>>, <<"t", "d">>, <<"l", "o", "n", "g", "e", "r">>}

\* no due date, a date as valid_date returns it
DueSamples == {<<>>, <<"2", "0", "2", "6", "-", "1", "1", "-", "0", "4">>}

LineRows ==
    [notes_id : IdSamples, status_id : 1..5, due : DueSamples,
     description : LineDescriptions, alias : AliasSamples]

InitLine ==
    /\ snippet_width \in 0..MaxWidth
    /\ colorize \in BOOLEAN
    /\ row \in LineRows
    /\ generation \in -1..MaxGen
    /\ result = <<>>
    /\ find = <<>>
    /\ excerpts = <<>>
    /\ IdleWrap
    /\ pc = "summary"
    /\ Nest = <<>>
    /\ my_ids = <<>>
    /\ tree = <<>>
    /\ parent_children = {}
    /\ ids = <<>>
    /\ gens = <<>>
    /\ first_run = <<>>
    /\ IdleStore

NextLine == summary_formatted

SpecLine == InitLine /\ [][NextLine]_vars

\* ------------------------------------------------ inputs of the highlight
\* the line and the term of the highlight example, at the default width
QuickBrownFox ==
    <<"t", "h", "e", " ", "q", "u", "i", "c", "k", " ",
      "b", "r", "o", "w", "n", " ", "f", "o", "x">>
Brown == <<"b", "r", "o", "w", "n">>
DefaultWidth == 48

\* description, search term and snippet_width
FindInputs ==
    (Text({"a", "b", "A", NL}, MaxText) \X Text({"a", "b", "A"}, MaxTerm) \X (0..MaxSnip))
    \cup {<<QuickBrownFox, Brown, DefaultWidth>>}

InitFind ==
    /\ \E i \in FindInputs :
           /\ row = [notes_id |-> 7, status_id |-> 1, due |-> <<>>,
                     description |-> i[1], alias |-> <<>>]
           /\ find = i[2]
           /\ snippet_width = i[3]
    /\ colorize = FALSE
    /\ generation = 0
    /\ result = <<>>
    /\ excerpts = <<>>
    /\ IdleWrap
    /\ pc = "find"
    /\ Nest = <<>>
    /\ my_ids = <<>>
    /\ tree = <<>>
    /\ parent_children = {}
    /\ ids = <<>>
    /\ gens = <<>>
    /\ first_run = <<>>
    /\ IdleStore

NextFind == print_highlight

SpecFind == InitFind /\ [][NextFind]_vars

\* ------------------------------------------------ inputs of the word wrap
\* texts of letters, blanks, tabs and line ends
WrapTexts == Text({"a", " ", "\t", NL}, MaxWrapText)

InitWrap ==
    /\ wrap_text \in WrapTexts
    /\ wrap_width \in 0..MaxWrapWidth
    /\ wrap = <<>>
    /\ pc = "wrap"
    /\ snippet_width = 0
    /\ colorize = FALSE
    /\ row = <<>>
    /\ generation = 0
    /\ result = <<>>
    /\ find = <<>>
    /\ excerpts = <<>>
    /\ Nest = <<>>
    /\ my_ids = <<>>
    /\ tree = <<>>
    /\ parent_children = {}
    /\ ids = <<>>
    /\ gens = <<>>
    /\ first_run = <<>>
    /\ IdleStore

NextWrap == call_smart_wrap

SpecWrap == InitWrap /\ [][NextWrap]_vars

\* ------------------------------------------------ a second run of the listing
\* The program is run again over the same set of edges and the same wanted
\* identifiers.  SELECT child FROM Nest WHERE parent = ? has no ORDER BY, so
\* the rows of one parent come back in the order the store keeps them, which
\* changes when an edge is deleted and inserted again (nest_parent_child).
run_again ==
    /\ pc = "done"
    /\ first_run = <<>>
    /\ first_run' = <<ids, gens>>
    /\ Nest' \in {t \in NestTables : Range(t) = Range(Nest)}
    /\ pc' = "call"
    /\ UNCHANGED <<my_ids, tree, parent_children, ids, gens>>
    /\ UNCHANGED <<lineVars, storeVars>>

\* the wanted identifiers of the second-run specification are drawn from
\* the notes that take part in the edges
InitOrder ==
    /\ InitNest
    /\ Range(my_ids) \subseteq 1..MaxId

NextOrder == nest_notes \/ run_again

SpecOrder == InitOrder /\ [][NextOrder]_vars

\* ------------------------------------------------------------ Notes store
\* Notes is a rowid table: add_note takes cursor.lastrowid as the identifier
\* of the row it inserted, so the identifiers are distinct, and a scan of
\* the table returns its rows by ascending identifier.

\* fetchone() of SELECT * FROM Notes ... WHERE notes_id = ?: the list is
\* empty for None and holds the row otherwise
query_row(note_id) == SelectSeq(Notes, LAMBDA r : r.notes_id = note_id)

\* SELECT notes_id FROM Notes WHERE description LIKE '%term%'
\* (LIKE does not tell a from A)
search_notes(term) ==
    {Notes[k].notes_id : k \in {j \in DOMAIN Notes :
                                   found_in(lower(Notes[j].description), lower(term))}}

\* SELECT notes_id FROM Notes WHERE status_id IN (...) [AND notes_id IN (...)]
select_notes(show, term) ==
    LET hit(r) == /\ r.status_id \in show
                  /\ (term # <<>> => r.notes_id \in search_notes(term))
        rows == SelectSeq(Notes, hit)
    IN  [k \in DOMAIN rows |-> rows[k].notes_id]

\* a variant that gives a note the generation of a child when it has a parent
print_flat_by_edges(wanted) ==
    [k \in DOMAIN wanted |->
        <<wanted[k], IF \E e \in Range(Nest) : e[2] = wanted[k] THEN 1 ELSE 0>>]

\* [print_formatted(query_row(i), 0, find, full) for i in my_ids]
print_flat(wanted) == [k \in DOMAIN wanted |-> <<wanted[k], 0>>]

\* ids, gens = nest_notes(my_ids); one line for each of zip(ids, gens)
print_nested(wanted) ==
    LET id_gen == filter_nested(flatten2list(family_tree), wanted)
        ids1 == Evens(id_gen)
        gens1 == Odds(id_gen)
        circular == circular_of(family_parent_children, ids1, wanted)
        ids2 == ids1 \o circular
        gens2 == gens1 \o Repeat(-1, Len(circular))
        free == free_of(ids2, wanted)
        ids3 == ids2 \o free
        gens3 == gens2 \o Repeat(0, Len(free))
    IN  [k \in DOMAIN ids3 |-> <<ids3[k], gens3[k]>>]

\* some row of the listing has no description: '\n' in row[3] raises
null_description(wanted) ==
    \E k \in DOMAIN Notes : Notes[k].notes_id \in Range(wanted)
                            /\ Notes[k].description = None

print_notes ==
    /\ pc = "notes"
    /\ LET wanted == select_notes(status_show, find)
       IN  /\ my_ids' = wanted
           /\ IF mode = "nested" /\ Raises(family_tree)
              THEN /\ printed' = <<>>
                   /\ pc' = "RecursionError"
              ELSE IF null_description(wanted)
              THEN /\ printed' = <<>>
                   /\ pc' = "TypeError"
              ELSE IF mode = "flat"
              THEN /\ printed' = print_flat(wanted)
                   /\ pc' = "printed"
              ELSE /\ printed' = print_nested(wanted)
                   /\ pc' = "printed"
    /\ UNCHANGED <<Nest, tree, parent_children, ids, gens, first_run, lineVars>>
    /\ last' = <<>>
    /\ UNCHANGED <<Notes, mode, status_show, identifier, batch, pos, log>>

\* ------------------------------------------------ inputs of the listing
StatusSamples == {1, 3}

DescSamples == {<<"a">>, <<"b">>}

\* tables of at most MaxId notes, by ascending identifier
NoteTables ==
    UNION {{[k \in 1..Cardinality(S) |->
                [notes_id |-> sort(S)[k],
                 status_id |-> f[sort(S)[k]][1],
                 description |-> f[sort(S)[k]][2]]]
            : f \in [S -> StatusSamples \X DescSamples]}
           : S \in SUBSET (1..MaxId)}

\* edge tables of at most MaxFlatEdges rows
FlatNests == {t \in NestTables : Len(t) <= MaxFlatEdges}

\* the two sets of statuses main asks for
ShowAll == {1, 2, 3, 4, 5}

ShowActive == {1, 2, 5}

InitFlat ==
    /\ Notes \in NoteTables
    /\ Nest \in FlatNests
    /\ mode \in {"flat", "nested"}
    /\ status_show \in {ShowAll, ShowActive}
    /\ find \in {<<>>, <<"a">>}
    /\ pc = "notes"
    /\ my_ids = <<>>
    /\ tree = <<>>
    /\ parent_children = {}
    /\ ids = <<>>
    /\ gens = <<>>
    /\ first_run = <<>>
    /\ snippet_width = 0
    /\ colorize = FALSE
    /\ row = <<>>
    /\ generation = 0
    /\ result = <<>>
    /\ excerpts = <<>>
    /\ IdleWrap
    /\ printed = <<>>
    /\ identifier = <<>>
    /\ batch = <<>>
    /\ pos = 0
    /\ log = <<>>
    /\ last = <<>>

NextFlat == print_notes

SpecFlat == InitFlat /\ [][NextFlat]_vars

\* ------------------------------------------------------------ direct lookup
\* str(x).isdigit()
isdigit(x) == x # <<>> /\ \A k \in DOMAIN x : x[k] \in Range(Digits)

\* the digit a character stands for
digit(c) == (CHOOSE k \in DOMAIN Digits : Digits[k] = c) - 1

\* int(x) for a text of digits
RECURSIVE int(_)
int(x) == IF x = <<>> THEN 0 ELSE 10 * int(SubSeq(x, 1, Len(x) - 1)) + digit(x[Len(x)])

\* the least element of a list of numbers
MinOf(l) == Min(Range(l))

\* l without the element at position p
Without(l, p) == SubSeq(l, 1, p - 1) \o SubSeq(l, p + 1, Len(l))

\* l.sort(), a list keeps its repeated elements
RECURSIVE sorted(_)
sorted(l) ==
    IF l = <<>> THEN <<>>
    ELSE LET p == CHOOSE k \in DOMAIN l : l[k] = MinOf(l)
         IN  <<MinOf(l)>> \o sorted(Without(l, p))

\* SELECT notes_id of the rows selected, in store order
ids_of(rows) == [k \in DOMAIN rows |-> rows[k].notes_id]

\* a variant that returns the identifiers in the order of the two queries
identifier_to_id_unsorted(note_id) ==
    LET numbers == SelectSeq(note_id, isdigit)
        alias_list == SelectSeq(note_id, LAMBDA x : ~isdigit(x))
        wanted == {int(numbers[k]) : k \in DOMAIN numbers}
        id_list == IF numbers # <<>>
                   THEN ids_of(SelectSeq(Notes, LAMBDA r : r.notes_id \in wanted))
                   ELSE <<>>
        a_ids == IF alias_list # <<>>
                 THEN ids_of(SelectSeq(Notes, LAMBDA r : r.alias \in Range(alias_list)))
                 ELSE <<>>
    IN  a_ids \o id_list

\* identifier_to_id: the tokens of digits are looked up as identifiers, the
\* others as aliases, and the identifiers found are sorted
identifier_to_id(note_id) ==
    LET numbers == SelectSeq(note_id, isdigit)
        alias_list == SelectSeq(note_id, LAMBDA x : ~isdigit(x))
        wanted == {int(numbers[k]) : k \in DOMAIN numbers}
        id_list == IF numbers # <<>>
                   THEN ids_of(SelectSeq(Notes, LAMBDA r : r.notes_id \in wanted))
                   ELSE <<>>
        a_ids == IF alias_list # <<>>
                 THEN ids_of(SelectSeq(Notes, LAMBDA r : r.alias \in Range(alias_list)))
                 ELSE <<>>
    IN  sorted(id_list \o a_ids)

NotFound == "Note does not exist: "

\* main, args.less: the batch is resolved once, before the first print_note
less ==
    /\ pc = "main"
    /\ batch' = identifier_to_id(identifier)
    /\ pos' = 0
    /\ pc' = IF identifier_to_id(identifier) = <<>> THEN "less_done" ELSE "less"
    /\ UNCHANGED <<Nest, my_ids, tree, parent_children, ids, gens, first_run, lineVars>>
    /\ UNCHANGED <<Notes, mode, status_show, printed, identifier, log, last>>

\* a variant in which a missing note ends the batch
print_note_fatal ==
    /\ pc = "less"
    /\ LET note_id == batch[pos + 1]
       IN  IF query_row(note_id) = <<>>
           THEN /\ log' = Append(log, <<NotFound, note_id>>)
                /\ pc' = "less_done"
           ELSE /\ log' = Append(log, <<"pipepager", note_id>>)
                /\ pc' = IF pos + 1 = Len(batch) THEN "less_done" ELSE "less"
    /\ pos' = pos + 1
    /\ UNCHANGED <<Nest, my_ids, tree, parent_children, ids, gens, first_run, lineVars>>
    /\ UNCHANGED <<Notes, mode, status_show, printed, identifier, batch, last>>

\* one call of the list comprehension of main; pipepager returns when the
\* reader leaves the pager
print_note ==
    /\ pc = "less"
    /\ LET note_id == batch[pos + 1]
       IN  IF query_row(note_id) = <<>>
           THEN log' = Append(log, <<NotFound, note_id>>)
           ELSE log' = Append(log, <<"pipepager", note_id>>)
    /\ pos' = pos + 1
    /\ pc' = IF pos + 1 = Len(batch) THEN "less_done" ELSE "less"
    /\ UNCHANGED <<Nest, my_ids, tree, parent_children, ids, gens, first_run, lineVars>>
    /\ UNCHANGED <<Notes, mode, status_show, printed, identifier, batch, last>>

\* a variant in which nobody adopts
adopted_none(P, O) == <<>>

\* the rows remove_note inserts: every parent of the note adopts every child
adopted(P, O) ==
    [k \in 1..(Cardinality(P) * Cardinality(O)) |->
        <<sort(P)[((k - 1) \div Cardinality(O)) + 1],
          sort(O)[((k - 1) % Cardinality(O)) + 1]>>]

\* remove_note(note_id) on the tables S: the row of the note and the edges
\* at the note are deleted, then every parent adopts every child
remove_note_rows(S, note_id) ==
    LET parents0 == {e[1] : e \in {x \in Range(S.nest) : x[2] = note_id}}
        orphans == {e[2] : e \in {x \in Range(S.nest) : x[1] = note_id}}
        kept == SelectSeq(S.nest, LAMBDA e : e[1] # note_id /\ e[2] # note_id)
    IN  [notes |-> SelectSeq(S.notes, LAMBDA r : r.notes_id # note_id),
         nest |-> kept \o adopted(parents0, orphans)]

\* another run of the program removes a note while the pager of this one
\* is open
remove_note ==
    /\ pc = "less"
    /\ \E note_id \in {Notes[k].notes_id : k \in DOMAIN Notes} :
           /\ Notes' = remove_note_rows([notes |-> Notes, nest |-> Nest], note_id).notes
           /\ Nest' = remove_note_rows([notes |-> Notes, nest |-> Nest], note_id).nest
    /\ UNCHANGED <<my_ids, pc, tree, parent_children, ids, gens, first_run, lineVars>>
    /\ UNCHANGED <<mode, status_show, printed, identifier, batch, pos, log, last>>

\* ------------------------------------------------------------ commands
\* An option that takes a number is <<>> when it is not given (None) and
\* <<v>> when it is; an option that takes a text is None or the text.

\* the truth value the interpreter gives an option
given_number(opt) == opt # <<>> /\ opt[1] # 0
given_text(opt) == opt # None /\ opt # <<>>

\* nest_parent_child(parent, child) on the rows of Nest
nest_parent_child(nest, parent, child) ==
    IF parent = <<>> THEN nest
    ELSE IF parent[1] > 0 /\ child > 0 THEN Append(nest, <<parent[1], child>>)
    ELSE IF parent[1] < 0 /\ child > 0
         THEN SelectSeq(nest, LAMBDA e : ~(e[1] = -parent[1] /\ e[2] = child))
    ELSE IF parent[1] = 0 /\ child > 0
         THEN SelectSeq(nest, LAMBDA e : e[2] # child)
    ELSE nest

\* cursor.lastrowid after an INSERT INTO Notes: one more than the largest
\* identifier in the table
lastrowid(notes) ==
    IF notes = <<>> THEN 1
    ELSE 1 + (CHOOSE m \in {notes[k].notes_id : k \in DOMAIN notes} :
                 \A k \in DOMAIN notes : notes[k].notes_id <= m)

\* add_note on the tables S; a is the record of the values input_note
\* hands over
add_note(S, a) ==
    LET n == lastrowid(S.notes)
        new_row == [notes_id |-> n,
                    status_id |-> IF given_number(a.status_id) THEN a.status_id[1] ELSE 1,
                    due |-> a.due,
                    description |-> a.description,
                    created |-> "added",
                    modified |-> "added",
                    priority |-> a.priority,
                    alias |-> a.alias]
    IN  [notes |-> Append(S.notes, new_row),
         nest |-> nest_parent_child(S.nest, a.parent_id, n)]

\* a variant that writes the priority it is given, None as well
edited_row_priority(row0, a) ==
    [notes_id |-> row0.notes_id,
     status_id |-> IF a.status_id # <<>> THEN a.status_id[1] ELSE row0.status_id,
     due |-> IF a.due # None THEN a.due ELSE row0.due,
     description |-> IF a.description # None THEN a.description ELSE row0.description,
     created |-> row0.created,
     modified |-> "now",
     priority |-> a.priority,
     alias |-> IF a.alias # None THEN a.alias ELSE row0.alias]

\* the row edit_note writes over the row it read
edited_row(row0, a) ==
    [notes_id |-> row0.notes_id,
     status_id |-> IF a.status_id # <<>> THEN a.status_id[1] ELSE row0.status_id,
     due |-> IF a.due # None THEN a.due ELSE row0.due,
     description |-> IF a.description # None THEN a.description ELSE row0.description,
     created |-> row0.created,
     modified |-> "now",
     priority |-> IF a.priority # <<>> THEN a.priority ELSE row0.priority,
     alias |-> IF a.alias # None THEN a.alias ELSE row0.alias]

\* edit_note on the tables S: INSERT or REPLACE writes the row in the place
\* of the row with the same identifier
edit_note(S, a, note_id) ==
    [notes |-> [k \in DOMAIN S.notes |->
                   IF S.notes[k].notes_id = note_id
                   THEN edited_row(S.notes[k], a) ELSE S.notes[k]],
     nest |-> nest_parent_child(S.nest, a.parent_id, note_id)]

\* for i in note_id: edit_note(..., int(i), ...)
RECURSIVE edit_notes(_, _, _)
edit_notes(S, a, note_id) ==
    IF note_id = <<>> THEN S
    ELSE edit_notes(edit_note(S, a, Head(note_id)), a, Tail(note_id))

\* SELECT EXISTS(SELECT 1 FROM Notes WHERE alias = ?)
alias_in_use(notes, alias) == \E k \in DOMAIN notes : notes[k].alias = alias

\* a variant that does not ask whether a note has the alias
checked_alias_unasked(notes, alias, note_id) ==
    IF Len(note_id) > 1 \/ isdigit(alias) THEN None ELSE alias

\* the alias input_note keeps: None for several notes, for a number, and
\* for an alias a note already has
checked_alias(notes, alias, note_id) ==
    IF Len(note_id) > 1 \/ isdigit(alias) THEN None
    ELSE IF alias_in_use(notes, alias) THEN None
    ELSE alias

\* valid_date's value for --date without a date, the const '0001-01-01'
\* formatted by strftime: where %Y pads the year to four digits
NoDate == <<"0", "0", "0", "1", "-", "0", "1", "-", "0", "1">>

\* and where %Y does not pad the year
NoDateUnpadded == <<"1", "-", "0", "1", "-", "0", "1">>

\* input_note on the tables S
input_note(S, a, note_id) ==
    LET b == [a EXCEPT !.alias = checked_alias(S.notes, a.alias, note_id),
                       !.due = IF a.due = NoDate THEN None ELSE a.due]
    IN  IF note_id = <<>> THEN add_note(S, b) ELSE edit_notes(S, b, note_id)

\* [remove_note(i) for i in identifier_to_id(args.identifier)]
RECURSIVE remove_notes(_, _)
remove_notes(S, note_id) ==
    IF note_id = <<>> THEN S
    ELSE remove_notes(remove_note_rows(S, Head(note_id)), Tail(note_id))

\* args.note or (args.identifier and (args.status or args.date or
\* args.priority or args.alias or args.parent))
edits(args) ==
    \/ given_text(args.note)
    \/ /\ args.identifier # <<>>
       /\ \/ given_number(args.status)
          \/ given_text(args.date)
          \/ given_number(args.priority)
          \/ given_text(args.alias)
          \/ given_number(args.parent)

\* the input part of main on the tables S
main_input(S, args) ==
    IF edits(args)
    THEN input_note(S, [description |-> args.note,
                        status_id |-> args.status,
                        due |-> args.date,
                        priority |-> args.priority,
                        alias |-> IF given_text(args.alias)
                                  THEN slice(args.alias, 0, 5) ELSE None,
                        parent_id |-> args.parent],
                    identifier_to_id(args.identifier))
    ELSE IF args.rm THEN remove_notes(S, identifier_to_id(args.identifier))
    ELSE S

\* one run of the program: the input part of main; the output part is
\* display_note when identifiers are given and print_notes otherwise
main(args) ==
    /\ pc \in {"main", "printed", "RecursionError", "TypeError"}
    /\ Notes' = main_input([notes |-> Notes, nest |-> Nest], args).notes
    /\ Nest' = main_input([notes |-> Notes, nest |-> Nest], args).nest
    /\ identifier' = args.identifier
    /\ pc' = IF args.identifier # <<>> THEN "display" ELSE "notes"
    /\ UNCHANGED <<my_ids, tree, parent_children, ids, gens, first_run, lineVars>>
    /\ last' = <<[args |-> args, notes |-> Notes, nest |-> Nest]>>
    /\ UNCHANGED <<mode, status_show, printed, batch, pos, log>>

\* display_note(identifier_to_id(args.identifier)): the notes named, flat
display_note ==
    /\ pc = "display"
    /\ my_ids' = identifier_to_id(identifier)
    /\ IF null_description(identifier_to_id(identifier))
       THEN /\ printed' = <<>>
            /\ pc' = "TypeError"
       ELSE /\ printed' = print_flat(identifier_to_id(identifier))
            /\ pc' = "printed"
    /\ UNCHANGED <<Nest, tree, parent_children, ids, gens, first_run, lineVars>>
    /\ last' = <<>>
    /\ UNCHANGED <<Notes, mode, status_show, identifier, batch, pos, log>>

\* ------------------------------------------- inputs of the direct lookup
\* tables whose notes differ in their identifier only
PlainTables ==
    {t \in NoteTables :
        \A k \in DOMAIN t : t[k].status_id = 1 /\ t[k].description = <<"a">>}

\* note 1 is the parent of note 2, and note 2 of note 3
ChainNest == <<<<1, 2>>, <<2, 3>>>>

InitLess ==
    /\ Notes \in PlainTables
    /\ Nest \in {<<>>, ChainNest}
    /\ identifier \in {[k \in DOMAIN sort(S) |-> str(sort(S)[k])] : S \in SUBSET (1..MaxId)}
    /\ pc = "main"
    /\ batch = <<>>
    /\ pos = 0
    /\ log = <<>>
    /\ last = <<>>
    /\ mode = "nested"
    /\ status_show = {}
    /\ printed = <<>>
    /\ my_ids = <<>>
    /\ tree = <<>>
    /\ parent_children = {}
    /\ ids = <<>>
    /\ gens = <<>>
    /\ first_run = <<>>
    /\ IdleLine

NextLess == less \/ print_note \/ remove_note

SpecLess == InitLess /\ [][NextLess]_vars

\* ------------------------------------------ inputs of identifier_to_id
\* a call of identifier_to_id on the tokens of the command line
resolve ==
    /\ pc = "resolve"
    /\ batch' = identifier_to_id(identifier)
    /\ pc' = "resolved"
    /\ UNCHANGED <<Nest, my_ids, tree, parent_children, ids, gens, first_run, lineVars>>
    /\ UNCHANGED <<Notes, mode, status_show, printed, identifier, pos, log, last>>

\* a row of Notes as add_note leaves it: status 1, nothing else given
NoteRow(n, description, alias) ==
    [notes_id |-> n, status_id |-> 1, due |-> None, description |-> description,
     created |-> "added", modified |-> "added", priority |-> <<>>, alias |-> alias]

\* no alias, and two aliases
AliasOrNone == {None, <<"a">>, <<"a", "1">>}

\* tables of at most MaxId notes, by ascending identifier, no two notes
\* with the same alias
AliasTables ==
    UNION {{[k \in 1..Cardinality(S) |-> NoteRow(sort(S)[k], <<"a">>, f[sort(S)[k]])]
            : f \in {g \in [S -> AliasOrNone] :
                        \A x, y \in S : (x # y /\ g[x] # None) => g[x] # g[y]}}
           : S \in SUBSET (1..MaxId)}

\* tokens of one or two characters: numbers, aliases, and names of nothing
Tokens == Text({"1", "2", "a"}, 2) \ {<<>>}

TokenLists == UNION {[1..k -> Tokens] : k \in 0..MaxTokens}

InitResolve ==
    /\ Notes \in AliasTables
    /\ identifier \in TokenLists
    /\ pc = "resolve"
    /\ Nest = <<>>
    /\ batch = <<>>
    /\ pos = 0
    /\ log = <<>>
    /\ last = <<>>
    /\ mode = "nested"
    /\ status_show = {}
    /\ printed = <<>>
    /\ my_ids = <<>>
    /\ tree = <<>>
    /\ parent_children = {}
    /\ ids = <<>>
    /\ gens = <<>>
    /\ first_run = <<>>
    /\ IdleLine

NextResolve == resolve

SpecResolve == InitResolve /\ [][NextResolve]_vars

\* ------------------------------------------------ inputs of the commands
\* a command line without any option
NoArgs ==
    [identifier |-> <<>>, note |-> None, status |-> <<>>, date |-> None,
     priority |-> <<>>, alias |-> None, parent |-> <<>>, rm |-> FALSE]

\* the store before the first command, and the listing main asks for
InitStore ==
    /\ Notes = <<>>
    /\ Nest = <<>>
    /\ pc = "main"
    /\ mode = "nested"
    /\ status_show = ShowActive
    /\ identifier = <<>>
    /\ printed = <<>>
    /\ batch = <<>>
    /\ pos = 0
    /\ log = <<>>
    /\ last = <<>>
    /\ my_ids = <<>>
    /\ tree = <<>>
    /\ parent_children = {}
    /\ ids = <<>>
    /\ gens = <<>>
    /\ first_run = <<>>
    /\ IdleLine

\* aliases: two short ones, a number, one of six characters, and one whose
\* first five characters are a number
AliasOptions ==
    {None, <<"a">>, <<"b">>, <<"1">>, <<"a", "b", "c", "d", "e", "f">>,
     <<"1", "2", "3", "4", "5", "x">>}

\* no identifier, one, two, an alias, a number and an alias
AliasIdentifiers ==
    {<<>>, <<<<"1">>>>, <<<<"2">>>>, <<<<"1">>, <<"2">>>>, <<<<"a">>>>,
     <<<<"1">>, <<"a">>>>}

\* add and edit commands with or without --note and --alias
AliasArgs ==
    {[NoArgs EXCEPT !.identifier = i, !.note = n, !.alias = al] :
        i \in AliasIdentifiers, n \in {None, <<"a">>}, al \in AliasOptions}

\* a command of AliasArgs, while the table has room for its note
alias_command == \E args \in AliasArgs : main(args) /\ Len(Notes') <= MaxRows

InitAlias == InitStore

NextAlias == alias_command \/ display_note \/ print_notes

SpecAlias == InitAlias /\ [][NextAlias]_vars

\* ------------------------------------- inputs of the nesting commands
\* --parent: not given, 0, a parent to take away, two notes, and the
\* identifier of no note
ParentOptions == {<<>>, <<0>>, <<-1>>, <<1>>, <<2>>, <<9>>}

NoteTokens == {<<<<"1">>>>, <<<<"2">>>>, <<<<"3">>>>}

\* the listing, add with --parent, edit with --parent, and -rm
TreeArgs ==
    {NoArgs}
    \cup {[NoArgs EXCEPT !.note = <<"a">>, !.parent = p] : p \in ParentOptions}
    \cup {[NoArgs EXCEPT !.identifier = i, !.parent = p] :
             i \in NoteTokens, p \in ParentOptions \ {<<>>}}
    \cup {[NoArgs EXCEPT !.identifier = i, !.rm = TRUE] : i \in NoteTokens}

\* a command of TreeArgs, while the tables have room for its rows
tree_command ==
    \E args \in TreeArgs :
        /\ main(args)
        /\ Len(Notes') <= MaxRows
        /\ Len(Nest') <= MaxNestRows

InitTree == InitStore

NextTree == tree_command \/ display_note \/ print_notes

SpecTree == InitTree /\ [][NextTree]_vars

\* ------------------------------------------------- inputs of edit_note
\* a date as valid_date returns it
ADate == <<"2", "0", "2", "6", "-", "1", "1", "-", "0", "4">>

\* a row with every field set, edited before
FullRow(n, alias) ==
    [notes_id |-> n, status_id |-> 3, due |-> ADate, description |-> <<"a", NL, "b">>,
     created |-> "added", modified |-> "now", priority |-> <<1>>, alias |-> alias]

\* tables of one and of two notes, each note as add_note left it or with
\* every field set
EditTables ==
    {<<r1>> : r1 \in {NoteRow(1, <<"a">>, None), FullRow(1, <<"y">>)}}
    \cup {<<r1, r2>> : r1 \in {NoteRow(1, <<"a">>, None), FullRow(1, <<"y">>)},
                       r2 \in {NoteRow(2, <<"a">>, None), FullRow(2, <<"z">>)}}

\* no edge, one edge, and edges both ways with one of them twice
EditNests == {<<>>, <<<<1, 2>>>>, <<<<1, 2>>, <<2, 1>>, <<1, 2>>>>}

\* the values edit_note is called with: each one given or None
EditValues ==
    [description : {None, <<"b">>}, status_id : {<<>>, <<2>>}, due : {None, ADate},
     priority : {<<>>, <<0>>, <<1>>}, alias : {None, <<"x">>},
     parent_id : ParentOptions]

\* one call of edit_note for a note of the table
call_edit_note ==
    /\ pc = "edit"
    /\ \E a \in EditValues, note_id \in {Notes[k].notes_id : k \in DOMAIN Notes} :
           /\ Notes' = edit_note([notes |-> Notes, nest |-> Nest], a, note_id).notes
           /\ Nest' = edit_note([notes |-> Notes, nest |-> Nest], a, note_id).nest
           /\ last' = <<[values |-> a, note_id |-> note_id, notes |-> Notes, nest |-> Nest]>>
    /\ pc' = "edited"
    /\ UNCHANGED <<my_ids, tree, parent_children, ids, gens, first_run, lineVars>>
    /\ UNCHANGED <<mode, status_show, printed, identifier, batch, pos, log>>

InitEditNote ==
    /\ Notes \in EditTables
    /\ Nest \in EditNests
    /\ pc = "edit"
    /\ mode = "nested"
    /\ status_show = ShowActive
    /\ identifier = <<>>
    /\ printed = <<>>
    /\ batch = <<>>
    /\ pos = 0
    /\ log = <<>>
    /\ last = <<>>
    /\ my_ids = <<>>
    /\ tree = <<>>
    /\ parent_children = {}
    /\ ids = <<>>
    /\ gens = <<>>
    /\ first_run = <<>>
    /\ IdleLine

NextEditNote == call_edit_note

SpecEditNote == InitEditNote /\ [][NextEditNote]_vars

\* ------------------------------------- inputs of the editing commands
\* an edit names note 1, note 2, or both
EditTokens == {<<<<"1">>>>, <<<<"2">>>>, <<<<"1">>, <<"2">>>>}

\* one option each: --note, --status, --date with a date and without (as
\* either platform formats it), --priority 0 and 1, --alias, --parent 0, a parent, a parent to take away
OneOption ==
    {[NoArgs EXCEPT !.note = <<"b">>],
     [NoArgs EXCEPT !.status = <<2>>],
     [NoArgs EXCEPT !.date = ADate],
     [NoArgs EXCEPT !.date = NoDate],
     [NoArgs EXCEPT !.date = NoDateUnpadded],
     [NoArgs EXCEPT !.priority = <<0>>],
     [NoArgs EXCEPT !.priority = <<1>>],
     [NoArgs EXCEPT !.alias = <<"x">>],
     [NoArgs EXCEPT !.parent = <<0>>],
     [NoArgs EXCEPT !.parent = <<1>>],
     [NoArgs EXCEPT !.parent = <<-1>>]}

\* add with and without a priority and a parent, and the edits with one
\* option
EditArgs ==
    {[NoArgs EXCEPT !.note = <<"a">>, !.priority = i, !.parent = p] :
        i \in {<<>>, <<1>>}, p \in {<<>>, <<1>>}}
    \cup {[o EXCEPT !.identifier = i] : o \in OneOption, i \in EditTokens}

\* a command of EditArgs, while the tables have room for its rows
edit_command ==
    \E args \in EditArgs :
        /\ main(args)
        /\ Len(Notes') <= MaxEditRows
        /\ Len(Nest') <= MaxNestRows

InitEdit == InitStore

NextEdit == edit_command \/ display_note \/ print_notes

SpecEdit == InitEdit /\ [][NextEdit]_vars

\* ------------------------------------------------ inputs of remove_note
\* the table of the notes 1..MaxId
AllNotes == [k \in 1..MaxId |-> NoteRow(k, <<"a">>, None)]

\* one call of remove_note for a note of the table
call_remove_note ==
    /\ pc = "remove"
    /\ \E note_id \in {Notes[k].notes_id : k \in DOMAIN Notes} :
           /\ Notes' = remove_note_rows([notes |-> Notes, nest |-> Nest], note_id).notes
           /\ Nest' = remove_note_rows([notes |-> Notes, nest |-> Nest], note_id).nest
           /\ last' = <<[note_id |-> note_id, notes |-> Notes, nest |-> Nest]>>
    /\ pc' = "removed"
    /\ UNCHANGED <<my_ids, tree, parent_children, ids, gens, first_run, lineVars>>
    /\ UNCHANGED <<mode, status_show, printed, identifier, batch, pos, log>>

InitRemove ==
    /\ Notes = AllNotes
    /\ Nest \in NestTables
    /\ pc = "remove"
    /\ mode = "nested"
    /\ status_show = ShowActive
    /\ identifier = <<>>
    /\ printed = <<>>
    /\ batch = <<>>
    /\ pos = 0
    /\ log = <<>>
    /\ last = <<>>
    /\ my_ids = <<>>
    /\ tree = <<>>
    /\ parent_children = {}
    /\ ids = <<>>
    /\ gens = <<>>
    /\ first_run = <<>>
    /\ IdleLine

NextRemove == call_remove_note

SpecRemove == InitRemove /\ [][NextRemove]_vars

\* ------------------------------------------------- graph notions (claims)
EdgeSet == Range(Nest)
W == Range(my_ids)
NoteIds == 1..MaxNote

IsParent(n) == \E e \in EdgeSet : e[1] = n
IsChild(n) == \E e \in EdgeSet : e[2] = n

\* a true root is a parent in some edge and a child in none
TrueRoots == {n \in NoteIds : IsParent(n) /\ ~IsChild(n)}

Succ(S) == {e[2] : e \in {x \in EdgeSet : x[1] \in S}}

RECURSIVE Closure(_)
Closure(S) == IF Succ(S) \subseteq S THEN S ELSE Closure(S \cup Succ(S))

\* the nodes reachable from a true root (the roots included)
FromRoots == Closure(TrueRoots)

HasCycle == \E n \in NoteIds : n \in Closure(Succ({n}))

\* number of paths of len edges from a true root to n, counted backwards
\* over the parents of n
RECURSIVE SumOver(_, _, _)
RECURSIVE NumPaths(_, _)
SumOver(S, n, len) ==
    IF S = {} THEN 0
    ELSE LET p == Min(S)
         IN  (IF <<p, n>> \in EdgeSet THEN NumPaths(p, len) ELSE 0)
             + SumOver(S \ {p}, n, len)
NumPaths(n, len) ==
    IF len = 0 THEN (IF n \in TrueRoots THEN 1 ELSE 0)
    ELSE SumOver(1..MaxId, n, len - 1)

Gens == 1..RecursionLimit

\* number of entries (n, g) in a pair of parallel lists
Occ(is, gs, n, g) == Cardinality({k \in DOMAIN is : is[k] = n /\ gs[k] = g})

\* the flattened tree as parallel lists
flat_ids == Evens(flatten2list(tree))
flat_gens == Odds(flatten2list(tree))

Returned == pc = "done"

\* ----------------------------------------------------------------- claims

\* C1: the tree expansion terminates for every finite edge set, also when a
\* cycle is reachable from a true root: the call of nest_notes never ends in
\* a RecursionError.
C1_ExpansionTerminates == pc # "RecursionError"

\* C2: the set of identifiers in the output of nest_notes equals W, and no
\* identifier outside W is ever emitted.
C2_OutputIdsEqualW ==
    /\ Range(ids) \subseteq W
    /\ Returned => Range(ids) = W

\* a call returned although the tree holds identifiers outside W
C2_Witness ==
    /\ Returned
    /\ W # {}
    /\ \E k \in DOMAIN flat_ids : flat_ids[k] \notin W

\* C3: whenever nest_notes returns, every identifier of W appears at least
\* once in its output, in the tree segment (generation >= 1), the circular
\* segment (-1) or the free segment (0), whatever the edge set is.
C3_EveryWantedIdPlaced ==
    Returned =>
        /\ Len(ids) = Len(gens)
        /\ \A w \in W : \E k \in DOMAIN ids :
               /\ ids[k] = w
               /\ (gens[k] >= 1 \/ gens[k] = -1 \/ gens[k] = 0)

\* a call returned on an edge set with a cycle, a multi-parent node and an
\* edge naming an identifier outside W
C3_Witness ==
    /\ Returned
    /\ HasCycle
    /\ \E e1, e2 \in EdgeSet : e1[2] = e2[2] /\ e1[1] # e2[1]
    /\ \E e \in EdgeSet : e[1] \notin W \/ e[2] \notin W
    /\ W # {}

\* C4: every entry emitted with generation -1 is in W, is both a parent and
\* a child, and is not reachable from any true root.
C4_CircularEntries ==
    Returned =>
        \A k \in DOMAIN ids :
            gens[k] = -1 =>
                /\ ids[k] \in W
                /\ IsParent(ids[k])
                /\ IsChild(ids[k])
                /\ ids[k] \notin FromRoots

\* a call returned with a circular entry while another parent-and-child
\* node is outside W
C4_Witness ==
    /\ Returned
    /\ \E k \in DOMAIN ids : gens[k] = -1
    /\ \E n \in NoteIds : n \notin W /\ IsParent(n) /\ IsChild(n)

\* C5: for every edge set containing a cycle, every wanted identifier that
\* is both a parent and a child and is not reachable from a true root is
\* emitted with generation -1 and never dropped; edges {(1,2),(2,1)} with 1
\* and 2 wanted give [(1,-1),(2,-1)].
C5_CyclicMembersEmitted ==
    pc # "call" =>
        /\ \A w \in W :
               (IsParent(w) /\ IsChild(w) /\ w \notin FromRoots) =>
                   \E k \in DOMAIN ids : ids[k] = w /\ gens[k] = -1
        /\ (EdgeSet = {<<1, 2>>, <<2, 1>>} /\ W = {1, 2}) =>
               (ids = <<1, 2>> /\ gens = <<-1, -1>>)

\* C6: every entry emitted with generation 0 is an identifier of W that
\* occurs in no edge, neither as parent nor as child.
C6_FreeEntriesUnrelated ==
    Returned =>
        \A k \in DOMAIN ids :
            gens[k] = 0 => (ids[k] \in W /\ ~IsParent(ids[k]) /\ ~IsChild(ids[k]))

Segment(g) == IF g >= 1 THEN 1 ELSE IF g = -1 THEN 2 ELSE 3

\* C9: the output is three consecutive segments: entries of generation
\* >= 1, then all entries of generation -1, then all entries of generation
\* 0; within the -1 segment and within the 0 segment the identifiers are
\* strictly ascending.
C9_ThreeSegments ==
    Returned =>
        /\ \A k \in DOMAIN gens : gens[k] >= -1
        /\ \A i, j \in DOMAIN ids :
               i < j =>
                   /\ Segment(gens[i]) <= Segment(gens[j])
                   /\ (gens[i] = gens[j] /\ gens[i] < 1) => ids[i] < ids[j]

\* all three segments present, two entries in the free segment
C9_Witness ==
    /\ Returned
    /\ \E k \in DOMAIN gens : gens[k] >= 1
    /\ \E k \in DOMAIN gens : gens[k] = -1
    /\ Cardinality({k \in DOMAIN gens : gens[k] = 0}) >= 2

\* positions of the subtree of the entry at position j of the flattened tree
Block(j) ==
    {i \in DOMAIN flat_ids :
        i > j /\ \A m \in (j + 1)..i : flat_gens[m] > flat_gens[j]}

\* the entries of generation 1, in order
RECURSIVE RootsOf(_, _)
RootsOf(is, gs) ==
    IF is = <<>> THEN <<>>
    ELSE (IF Head(gs) = 1 THEN <<Head(is)>> ELSE <<>>) \o RootsOf(Tail(is), Tail(gs))

\* C10: true roots are the nodes that occur as a parent and never as a
\* child; the tree lists them in ascending order, each at generation 1
\* followed depth-first (pre-order) by its descendants, a child carrying its
\* parent's generation + 1; edges {(1,2),(2,3)} with W = {1,2,3} give
\* [(1,1),(2,2),(3,3)] and nothing else.
C10_RootsThenPreorder ==
    Returned =>
        /\ RootsOf(flat_ids, flat_gens) = sort(TrueRoots)
        /\ flat_ids # <<>> => flat_gens[1] = 1
        /\ \A i \in DOMAIN flat_ids :
               /\ flat_gens[i] >= 1
               /\ i > 1 => flat_gens[i] <= flat_gens[i - 1] + 1
        /\ \A j \in DOMAIN flat_ids :
               \* the entries one generation below j inside its block are
               \* exactly its children, each once
               /\ \A i \in Block(j) :
                      flat_gens[i] = flat_gens[j] + 1 =>
                          <<flat_ids[j], flat_ids[i]>> \in EdgeSet
               /\ \A c \in NoteIds :
                      <<flat_ids[j], c>> \in EdgeSet =>
                          Cardinality({i \in Block(j) :
                              flat_ids[i] = c /\ flat_gens[i] = flat_gens[j] + 1}) = 1
        /\ (EdgeSet = {<<1, 2>>, <<2, 3>>} /\ W = {1, 2, 3}) =>
               (ids = <<1, 2, 3>> /\ gens = <<1, 2, 3>>)

\* the example of the claim
C10_Witness ==
    /\ Returned
    /\ EdgeSet = {<<1, 2>>, <<2, 3>>}
    /\ W = {1, 2, 3}
    /\ ids = <<1, 2, 3>>
    /\ gens = <<1, 2, 3>>

\* C11: the nested display order is deterministic: two runs of nest_notes
\* over the same set of edges and the same W return the same sequence of
\* (id, generation) pairs, whatever the order in which the store returns
\* the edges.
C11_SameOrderOnEveryRun ==
    (Returned /\ first_run # <<>>) => <<ids, gens>> = first_run

\* --------------------------------------------------- flat listing (claims)
FlatPrinted == pc = "printed" /\ mode = "flat"

\* the notes the filtered query selects
Selected ==
    {Notes[k].notes_id : k \in {j \in DOMAIN Notes :
        /\ Notes[j].status_id \in status_show
        /\ (find # <<>> => found_in(lower(Notes[j].description), lower(find)))}}

\* C12: in flat mode every identifier of W is printed exactly once, in the
\* order in which the filtered query returned them, each with generation 0
\* whatever edges it takes part in.
C12_FlatListing ==
    FlatPrinted =>
        /\ W = Selected
        /\ Len(printed) = Len(my_ids)
        /\ \A k \in DOMAIN printed : printed[k] = <<my_ids[k], 0>>
        /\ \A i \in W : Cardinality({k \in DOMAIN printed : printed[k][1] = i}) = 1

\* two notes are listed flat, and one of them is the child of an edge
C12_Witness ==
    /\ FlatPrinted
    /\ Len(printed) >= 2
    /\ \E k \in DOMAIN printed : \E e \in EdgeSet : e[2] = printed[k][1]

\* ------------------------------------------------- line notions (claims)
Formatted == pc = "summary_done"

\* length of the generation glyph
GlyphLen(g) == IF g = 0 THEN 0 ELSE IF g = -1 THEN 2 ELSE g + 1

\* number of characters before the first newline of a text
FirstLineLen(s) ==
    IF \E k \in DOMAIN s : s[k] = NL
    THEN Min({k \in DOMAIN s : s[k] = NL}) - 1
    ELSE Len(s)

\* the marker the two flags ask for
MarkerFor(long, multi) ==
    IF long /\ multi THEN "&" ELSE IF long THEN "~" ELSE IF multi THEN "v" ELSE "|"

\* the escape sequences of the palette
Escapes == {style_parser(palette[c], st) : c \in DOMAIN palette, st \in {0, 3, 5}}
NotEscape(x) == x \notin Escapes
\* the line with the escape sequences deleted
Strip(s) == SelectSeq(s, NotEscape)

\* C13: for every note row and every generation the unstyled line returned
\* by summary_formatted has the fixed length snippet_width + 24.
C13_FixedLength ==
    (Formatted /\ ~colorize) => Len(result) = snippet_width + 24

\* C14: the trailing marker follows from tooLong (glyph + first line longer
\* than snippet_width, strictly) and multiline (a newline in the
\* description): both '&', tooLong '~', multiline 'v', neither '|'; the
\* glyph + first line is cut or space-padded to exactly snippet_width
\* characters before the marker; "abc\ndef" at width 3 and generation 0
\* gives 'v'.
C14_TrailingMarker ==
    (Formatted /\ ~colorize) =>
        LET n == Len(result)
            text == gen_symbol(generation) \o SubSeq(row.description, 1, FirstLineLen(row.description))
            long == GlyphLen(generation) + FirstLineLen(row.description) > snippet_width
            multi == \E k \in DOMAIN row.description : row.description[k] = NL
            field == SubSeq(result, n - 1 - snippet_width, n - 2)
        IN  /\ result[n] = " "
            /\ result[n - 1] = MarkerFor(long, multi)
            /\ Len(field) = snippet_width
            /\ \A k \in 1..snippet_width :
                   field[k] = (IF k <= Len(text) THEN text[k] ELSE " ")
            /\ (row.description = AbcDef /\ snippet_width = 3 /\ generation = 0) =>
                   result[n - 1] = "v"

\* the example of the claim: a first line exactly as long as the field
C14_Witness ==
    /\ Formatted
    /\ ~colorize
    /\ row.description = AbcDef
    /\ snippet_width = 3
    /\ generation = 0
    /\ result[Len(result) - 1] = "v"

\* C15: gen_symbol maps generation 0 to the empty glyph, 1 to "> ", g >= 2
\* to g-1 dashes followed by "> " (3 to "--> "), -1 to "? "; for g >= 1 the
\* glyph has length g + 1.
C15_GenSymbol ==
    LET sym == gen_symbol(generation)
    IN  /\ generation = 0 => sym = <<>>
        /\ generation = 1 => sym = <<">", " ">>
        /\ generation = 3 => sym = <<"-", "-", ">", " ">>
        /\ generation = -1 => sym = <<"?", " ">>
        /\ generation >= 1 =>
               /\ Len(sym) = generation + 1
               /\ \A k \in 1..(generation - 1) : sym[k] = "-"
               /\ sym[generation] = ">"
               /\ sym[generation + 1] = " "

\* a line formatted at generation 3, starting its note field with "--> "
C15_Witness ==
    /\ Formatted
    /\ ~colorize
    /\ generation = 3
    /\ snippet_width >= 3
    /\ SubSeq(result, Len(result) - 1 - snippet_width, Len(result) - snippet_width + 1)
           = <<"-", "-", ">">>

\* C16: with styling enabled, deleting the escape sequences from the output
\* of colorize_summary gives back exactly the input line.
C16_StylingKeepsTheLine ==
    (Formatted /\ colorize) => Strip(result) = plain_summary(row, generation)

\* -------------------------------------------- highlight notions (claims)
Highlighted == pc = "find_done" /\ find # <<>>

\* the lines of the description, in their original case
DescLines == split(row.description, <<NL>>)

\* s, in any case, holds t, in any case, at offset k
MatchAt(s, t, k) ==
    /\ k + Len(t) <= Len(s)
    /\ \A i \in 1..Len(t) : lower_chr(s[k + i]) = lower_chr(t[i])

Matches(s, t) == \E k \in 0..Len(s) : MatchAt(s, t, k)

FirstMatch(s, t) == Min({k \in 0..Len(s) : MatchAt(s, t, k)})

\* positions of the lines that hold the term
MatchingLines == {k \in DOMAIN DescLines : Matches(DescLines[k], find)}

\* the n-th line that holds the term
RECURSIVE NthMatching(_, _)
NthMatching(n, from) ==
    LET k == Min({j \in MatchingLines : j >= from})
    IN  IF n = 1 THEN DescLines[k] ELSE NthMatching(n - 1, k + 1)

\* C17: when a line containing the term is shorter than the available
\* width, the excerpt is the whole line, nothing cut and nothing added,
\* with the term uppercased in place, also when the term occurs more than
\* once; "the quick brown fox" with "brown" gives "the quick BROWN fox".
C17_WholeLineWhenShort ==
    Highlighted =>
        /\ \A n \in DOMAIN excerpts :
               n <= Cardinality(MatchingLines) =>
                   LET line == NthMatching(n, 1)
                       at == FirstMatch(line, find)
                   IN  Len(line) < snippet_width - Len(find) =>
                           /\ Len(excerpts[n]) = Len(line)
                           /\ \A i \in DOMAIN line :
                                  lower_chr(excerpts[n][i]) = lower_chr(line[i])
                           /\ SubSeq(excerpts[n], at + 1, at + Len(find)) = upper(find)
        /\ (row.description = QuickBrownFox /\ find = Brown) =>
               excerpts = <<<<"t", "h", "e", " ", "q", "u", "i", "c", "k", " ",
                              "B", "R", "O", "W", "N", " ", "f", "o", "x">>>>

\* C18: for every line containing the term, every term and every snippet
\* width, also a term as long as or longer than the width, the excerpt is
\* at most snippet_width characters long.
C18_ExcerptWithinWidth ==
    Highlighted => \A n \in DOMAIN excerpts : Len(excerpts[n]) <= snippet_width

\* C19: one excerpt is printed for each line that contains the term
\* case-insensitively and none for the other lines, and every excerpt
\* contains the term in upper case.
C19_OneExcerptPerMatchingLine ==
    Highlighted =>
        /\ Len(excerpts) = Cardinality(MatchingLines)
        /\ \A n \in DOMAIN excerpts : found_in(excerpts[n], upper(find))

\* ------------------------------------------------- direct lookup (claims)
Exists(note_id) == \E k \in DOMAIN Notes : Notes[k].notes_id = note_id

\* every handled identifier of the batch has its one entry, in batch order
HandledInOrder ==
    /\ Len(log) = pos
    /\ pos <= Len(batch)
    /\ \A k \in 1..pos : log[k][2] = batch[k]
    /\ (pc = "less_done") => (pos = Len(batch))
    /\ (pc = "less") => (pos < Len(batch))

\* a call of print_note for a note without a row
MissingLookup == pc = "less" /\ pos' = pos + 1 /\ ~Exists(batch[pos + 1])

\* C20: print_note of an identifier without a note row reports 'Note does
\* not exist' and renders nothing for it, the condition is not fatal, and
\* the other identifiers of the batch are still handled, in order.
C20_MissingNoteReported ==
    /\ [](pc \in {"less", "less_done"} => HandledInOrder)
    /\ [][MissingLookup =>
            /\ log' = Append(log, <<NotFound, batch[pos + 1]>>)
            /\ batch' = batch
            /\ pc' = IF pos + 1 < Len(batch) THEN "less" ELSE "less_done"]_vars

\* a batch is done in which a missing note was reported and the note after
\* it was shown
C20_Witness ==
    /\ pc = "less_done"
    /\ \E k \in 1..(Len(log) - 1) :
           log[k][1] = NotFound /\ log[k + 1][1] = "pipepager"

\* ------------------------------------------ identifier_to_id (claims)
Resolved == pc = "resolved"

\* the token is made of decimal digits only
PurelyNumeric(x) == x # <<>> /\ \A k \in DOMAIN x : x[k] \in {"0", "1", "2", "3", "4", "5", "6", "7", "8", "9"}

\* the notes the tokens name
Named ==
    {Notes[r].notes_id : r \in {j \in DOMAIN Notes :
        \E k \in DOMAIN identifier :
            \/ PurelyNumeric(identifier[k]) /\ int(identifier[k]) = Notes[j].notes_id
            \/ ~PurelyNumeric(identifier[k]) /\ identifier[k] = Notes[j].alias}}

\* C23: identifier_to_id returns, sorted ascending, exactly the identifiers
\* of the existing notes the tokens name: a token of digits names the note
\* with that identifier, any other token the note with that alias, and a
\* token that names no note adds nothing.
C23_ResolvedIdentifiers ==
    Resolved =>
        /\ Range(batch) = Named
        /\ \A i, j \in DOMAIN batch : i < j => batch[i] <= batch[j]

\* a note found by its alias comes before a note found by its number
C23_Witness ==
    /\ Resolved
    /\ Len(batch) >= 2
    /\ \E k \in DOMAIN identifier : identifier[k] = Notes[1].alias
    /\ \E k \in DOMAIN identifier :
           PurelyNumeric(identifier[k]) /\ int(identifier[k]) > Notes[1].notes_id
                                        /\ int(identifier[k]) \in Range(batch)

\* ------------------------------------------------------ commands (claims)
\* a command has just run; the tables it found and its options
Ran == last # <<>>
Before == last[1]
Args == last[1].args

\* the identifiers the command named, as main resolved them
Resolved0 ==
    {k \in DOMAIN Before.notes :
        \E t \in DOMAIN Args.identifier :
            \/ PurelyNumeric(Args.identifier[t])
               /\ int(Args.identifier[t]) = Before.notes[k].notes_id
            \/ ~PurelyNumeric(Args.identifier[t])
               /\ Args.identifier[t] = Before.notes[k].alias}

\* the notes the command named
NamedBefore == {Before.notes[k].notes_id : k \in Resolved0}

IdsBefore == {Before.notes[k].notes_id : k \in DOMAIN Before.notes}

IdsOfNotes == {Notes[k].notes_id : k \in DOMAIN Notes}

RowBefore(n) == Before.notes[CHOOSE k \in DOMAIN Before.notes : Before.notes[k].notes_id = n]

RowOf(n) == Notes[CHOOSE k \in DOMAIN Notes : Notes[k].notes_id = n]

\* no two notes with the same alias, no alias a number, none over five long
AliasesValid ==
    \A j, k \in DOMAIN Notes :
        Notes[k].alias # None =>
            /\ (j # k => Notes[j].alias # Notes[k].alias)
            /\ ~PurelyNumeric(Notes[k].alias)
            /\ Len(Notes[k].alias) <= 5

\* the command gave an alias that a note had, or a number, or it gave an
\* alias and named more than one note
AliasRefused ==
    /\ Args.alias # None
    /\ \/ \E k \in DOMAIN Before.notes : Before.notes[k].alias = Args.alias
       \/ PurelyNumeric(Args.alias)
       \/ Cardinality(NamedBefore) > 1

\* every note has the alias it had, and a note that is new has none
AliasesKept ==
    \A k \in DOMAIN Notes :
        IF Notes[k].notes_id \in IdsBefore
        THEN Notes[k].alias = RowBefore(Notes[k].notes_id).alias
        ELSE Notes[k].alias = None

Edited == Ran /\ edits(Args)

\* the edges the command added
NewEdges == Range(Nest) \ Range(Before.nest)

\* C22: every edge that --parent inserts on an add or an edit references
\* existing notes when it is inserted: nest_parent_child adds (parent,
\* child) only when parent and child are both identifiers of notes in the
\* store.
C22_EdgesReferenceNotes ==
    Edited => \A e \in NewEdges : e[1] \in IdsOfNotes /\ e[2] \in IdsOfNotes

\* ----------------------------------------------------- edit_note (claims)
EditedNote == pc = "edited"

Values == last[1].values

\* the edges --parent names: those from the parent given to the note, and
\* for 0 all the edges to the note
NamedEdge(e) ==
    /\ Values.parent_id # <<>>
    /\ e[2] = last[1].note_id
    /\ \/ Values.parent_id[1] = 0
       \/ e[1] = Values.parent_id[1]
       \/ e[1] = -Values.parent_id[1]

\* C24: edit_note on an existing note replaces only the fields a value is
\* supplied for (status, due, description, priority, alias) and the
\* modified timestamp, which every edit sets; the identifier, the created
\* timestamp, the fields not supplied, the other notes and the edges that
\* --parent does not name stay as they were.
C24_EditFrame ==
    EditedNote =>
        LET n == last[1].note_id
            old == RowBefore(n)
            new == RowOf(n)
        IN  /\ Len(Notes) = Len(Before.notes)
            /\ \A k \in DOMAIN Notes :
                   Before.notes[k].notes_id # n => Notes[k] = Before.notes[k]
            /\ new.notes_id = n
            /\ new.created = old.created
            /\ new.modified = "now"
            /\ new.status_id = (IF Values.status_id # <<>> THEN Values.status_id[1] ELSE old.status_id)
            /\ new.due = (IF Values.due # None THEN Values.due ELSE old.due)
            /\ new.description = (IF Values.description # None THEN Values.description ELSE old.description)
            /\ new.priority = (IF Values.priority # <<>> THEN Values.priority ELSE old.priority)
            /\ new.alias = (IF Values.alias # None THEN Values.alias ELSE old.alias)
            /\ SelectSeq(Nest, LAMBDA e : ~NamedEdge(e))
                   = SelectSeq(Before.nest, LAMBDA e : ~NamedEdge(e))

\* an edit of note 2 gave a status and a parent to take away, and nothing
\* else: the row keeps its other fields, note 1 its row, and the edge from
\* note 2 to note 1 stays
C24_Witness ==
    /\ EditedNote
    /\ last[1].note_id = 2
    /\ Values.status_id = <<2>>
    /\ Values.priority = <<>>
    /\ Values.alias = None
    /\ Values.parent_id = <<-1>>
    /\ RowOf(2).priority = <<1>>
    /\ RowOf(2).status_id = 2
    /\ Nest = <<<<2, 1>>>>

\* ------------------------------------------------- edit commands (claims)
\* the command named a note and gave one of --status, --date, --priority,
\* --alias, --parent, and neither --note nor -rm
EditAsked ==
    /\ Ran
    /\ NamedBefore # {}
    /\ Args.note = None
    /\ ~Args.rm
    /\ \/ Args.status # <<>>
       \/ Args.date # None
       \/ Args.priority # <<>>
       \/ Args.alias # None
       \/ Args.parent # <<>>

\* C25: a command that names a note that exists and gives one of --status,
\* --date, --priority, --alias, --parent applies the edit, also for the
\* values 0: --parent 0 alone deletes every edge whose child is the note,
\* and --priority 0 alone sets the priority of the note to 0.
C25_ZeroValuesApplied ==
    EditAsked =>
        \A n \in NamedBefore :
            /\ RowOf(n).modified = "now"
            /\ Args.priority # <<>> => RowOf(n).priority = Args.priority
            /\ Args.parent = <<0>> => \A e \in Range(Nest) : e[2] # n

\* --------------------------------------------------- remove_note (claims)
Removed == pc = "removed"

\* the notes one edge of E leads to from the notes of S
SuccIn(E, S) == {e[2] : e \in {x \in E : x[1] \in S}}

RECURSIVE ClosureIn(_, _)
ClosureIn(E, S) == IF SuccIn(E, S) \subseteq S THEN S ELSE ClosureIn(E, S \cup SuccIn(E, S))

\* b is reached from a over one edge of E or more
Reaches(E, a, b) == b \in ClosureIn(E, SuccIn(E, {a}))

\* C26: after remove_note(n) no edge of Nest has n as its parent or as its
\* child, whatever edges n was part of before (several parents, several
\* children, a cycle through n, the self-loop (n, n)).
C26_NoEdgeAtRemovedNote ==
    Removed => \A e \in Range(Nest) : e[1] # last[1].note_id /\ e[2] # last[1].note_id

\* C27: remove_note(n) keeps the ancestor relation among the other notes:
\* for all notes a and b other than n, b is reached from a over the edges
\* after the removal exactly when it was before.
C27_AncestorsKept ==
    Removed =>
        \A a, b \in (1..MaxId) \ {last[1].note_id} :
            Reaches(Range(Nest), a, b) <=> Reaches(Range(Before.nest), a, b)

\* the removed note had a parent and a child, two other notes with no edge
\* between them, and the parent has adopted the child
C27_Witness ==
    /\ Removed
    /\ \E a, b \in (1..MaxId) \ {last[1].note_id} :
           /\ a # b
           /\ <<a, last[1].note_id>> \in Range(Before.nest)
           /\ <<last[1].note_id, b>> \in Range(Before.nest)
           /\ <<a, b>> \notin Range(Before.nest)
           /\ <<a, b>> \in Range(Nest)

\* ------------------------------------------------ nested listing (claims)
\* the nested listing of main has run, to its end or to an error
Listed == pc \in {"printed", "RecursionError", "TypeError"} /\ identifier = <<>>

\* C28: after any sequence of add, edit and remove commands every
\* identifier nest_notes emits, for the wanted notes the query selects, has
\* a row in Notes, and the nested listing does not fail.
C28_NestedListingNeverFails ==
    Listed =>
        /\ pc = "printed"
        /\ \A k \in DOMAIN printed : printed[k][1] \in IdsOfNotes

\* the identifiers of a listing that came to its end have their rows
ListedHaveRows ==
    (Listed /\ pc = "printed") => \A k \in DOMAIN printed : printed[k][1] \in IdsOfNotes

\* the command named identifiers, none of them of a note, and gave --note,
\* --status, --date, --priority, --alias or --parent
EditOfNothing ==
    /\ Ran
    /\ Args.identifier # <<>>
    /\ NamedBefore = {}
    /\ edits(Args)

WrapReturned == join(<<NL>>, wrap)

\* the lines of the text handed to smart_wrap
TextLines == split(wrap_text, <<NL>>)

\* the largest leading indent of the text
LargestIndent ==
    CHOOSE i \in 0..Len(wrap_text) :
        /\ \E k \in DOMAIN TextLines : indent_of(TextLines[k]) = i
        /\ \A k \in DOMAIN TextLines : indent_of(TextLines[k]) <= i

\* a text without its blanks, tabs and line ends
NonBlank(s) == SelectSeq(s, LAMBDA c : c \notin Whitespace \cup {NL})

\* the segments of line k: the first begins with as many blanks as the line
\* has indent, every later one with two blanks more
SegmentsIndented(k) ==
    LET segments == split(wrap[k], <<NL>>)
        indent == indent_of(TextLines[k])
    IN  \A j \in DOMAIN segments :
            segments[j] # <<>> =>
                LET lead == IF j = 1 THEN indent ELSE indent + 2
                IN  /\ Len(segments[j]) > lead
                    /\ SubSeq(segments[j], 1, lead) = Fill(" ", lead)
                    /\ j = 1 => segments[j][lead + 1] \notin Whitespace

\* smart_wrap has returned
Wrapped == pc = "wrapped"

\* C30: smart_wrap returns for every text and width, the returned text has
\* all the non-blank content of the text, and when width is greater than
\* the largest indent no returned line is longer than width, the first
\* segment of a line has the line's indent and its later segments two
\* blanks more.
C30_WrapWithinWidth ==
    /\ pc # "ValueError"
    /\ Wrapped =>
        /\ NonBlank(WrapReturned) = NonBlank(wrap_text)
        /\ wrap_width > LargestIndent =>
            /\ \A k \in DOMAIN split(WrapReturned, <<NL>>) :
                   Len(split(WrapReturned, <<NL>>)[k]) <= wrap_width
            /\ \A k \in DOMAIN TextLines : SegmentsIndented(k)

\* the parts of C30 the code keeps: with width greater than the largest
\* indent the call returns, no content is lost, and the segments are
\* indented as the contract says
WrapIndentsKept ==
    wrap_width > LargestIndent =>
        /\ pc # "ValueError"
        /\ Wrapped =>
            /\ NonBlank(WrapReturned) = NonBlank(wrap_text)
            /\ \A k \in DOMAIN TextLines : SegmentsIndented(k)

\* a returned line is longer than width although width is greater than the
\* largest indent
WrapTooLong ==
    /\ Wrapped
    /\ wrap_width > LargestIndent
    /\ \E k \in DOMAIN split(WrapReturned, <<NL>>) :
           Len(split(WrapReturned, <<NL>>)[k]) > wrap_width

\* an indent equal to width makes the call fail
WrapFails == pc = "ValueError"

\* an indent greater than width makes the call drop the line's content
WrapDrops == Wrapped /\ NonBlank(WrapReturned) # NonBlank(wrap_text)

====
